---------------------------- MODULE Spec2Model ----------------------------
(***************************************************************************)
(* Energy monitor (src/app.py): the memoized device read                   *)
(* (get_cached_device_status under functools.lru_cache), the JSON sample   *)
(* store (save_energy_data and the handlers that read energy_data.json     *)
(* under file_lock), the polling thread (monitor_energy) and the day       *)
(* detail computation (historical_data).                                   *)
(*                                                                         *)
(* Units.  Time is in seconds; a timestamp is the number of seconds since  *)
(* a local midnight, so its calendar date is timestamp \div 86400.  The    *)
(* clock never runs backwards.  Power is kept as the device reports it,    *)
(* in tenths of a watt: the stored power_w = raw / 10 is the fixed-point   *)
(* number pw / 10.  A stored entry keeps its timestamp, power_w and is_on; *)
(* the other telemetry fields are copied by the same statements.           *)
(***************************************************************************)
EXTENDS Integers, Sequences, FiniteSets, TLC

\* ------------------------------------------------------------ constants
STORAGE_INTERVAL == 300
SleepSeconds == 60
RetentionDays == 30
SecondsPerDay == 86400
SecondsPerHour == 3600
CacheTTL == 10

Retention == RetentionDays * SecondsPerDay

\* ------------------------------------------------------------ bounds
NumReq == 1
CacheTicks == 1
StoreTicks == 2
SchedTicks == 10
MaxCmds == 1
MaxSamples == 3

Poller == 0
Reqs == 1..NumReq
MainThread == NumReq + 1
Free == 0 - 1
Callers == {Poller} \cup Reqs

VARIABLES
  now,          \* time.time() / datetime.now()
  ticks,        \* number of clock steps taken so far
  devPresent,   \* the module-level `device` is not None
  devOn,        \* the outlet's relay (dps '1')
  cmdsSent,     \* number of set_status commands the device has executed
  cache,        \* the single slot of the lru_cache
  readTimes,    \* times of the device.status() calls since the last clear
  cmdsCleared,  \* highest command whose cache_clear() has completed
  gpc,          \* per caller: position inside get_cached_device_status
  gval,         \* per caller: the value the call computed or found
  gstart,       \* per caller: cmdsCleared when the call looked the cache up
  gage,         \* per caller: age of the memoized value it was given, -1 on a miss
  gfail,        \* per caller: its own device read gave nothing
  rpc,          \* per request thread: position in its handler
  rkind,        \* per request thread: the route being served
  rarg,         \* per request thread: the query argument (date or days)
  rcmd,         \* per request thread: index of the command it sent
  rres,         \* per request thread: the response
  all_data,     \* per request thread: what json.load returned
  rok,          \* per request thread: json.load returned normally
  rseen,        \* per request thread: what the store held when it was read
  file,         \* energy_data.json
  file_lock,    \* holder of file_lock, or Free
  durable,      \* content of the last complete write of the file
  midWrite,     \* a rewrite of the file has been opened and not finished
  mpc,          \* main thread: position in init_files, then serving
  ppc,          \* monitor thread: position in monitor_energy
  last_save_time, \* monitor_energy's local
  wake,         \* when the monitor thread's time.sleep(60) ends
  existing_data, \* save_energy_data's local
  cutoff,       \* save_energy_data's local
  saveResult,   \* how the last save_energy_data call ended
  pollOutcome,  \* how the last due poll cycle ended
  attempt       \* when the monitor thread last asked for the device status

clockVars == <<now, ticks>>
devVars == <<devPresent, devOn, cmdsSent>>
cacheVars == <<cache, readTimes, cmdsCleared>>
getVars == <<gpc, gval, gstart, gage, gfail>>
reqVars == <<rpc, rkind, rarg, rcmd, rres, all_data, rok, rseen>>
fileVars == <<file, file_lock, durable, midWrite>>
pollVars == <<ppc, last_save_time, wake, existing_data, cutoff, saveResult,
              pollOutcome, attempt>>
vars == <<clockVars, devVars, cacheVars, getVars, reqVars, fileVars,
          pollVars, mpc>>

\* ------------------------------------------------------------ values
\* device.status().get('dps', {}): has = FALSE is the empty dict {}.
\* at and cmds record when the reading was taken and how many power
\* commands the device had executed by then.
Dps(has, on, pw, at, cmds) ==
  [has |-> has, on |-> on, pw |-> pw, at |-> at, cmds |-> cmds]

EmptyDps(at, cmds) == Dps(FALSE, FALSE, 0, at, cmds)

NoCache == Dps(FALSE, FALSE, 0, 0 - 1, 0 - 1)

NoResponse == [status |-> 0]

\* The JSON file: absent, a complete JSON array, or bytes that do not parse
\* (opened for writing and not, or not completely, written).
AbsentFile == [exists |-> FALSE, valid |-> FALSE, data |-> << >>]
ValidFile(d) == [exists |-> TRUE, valid |-> TRUE, data |-> d]
TruncatedFile == [exists |-> TRUE, valid |-> FALSE, data |-> << >>]

Sample(ts, pw, on) == [ts |-> ts, pw |-> pw, on |-> on]

Max(a, b) == IF a >= b THEN a ELSE b

\* datetime.fromisoformat(ts).strftime('%Y-%m-%d')
DateOf(ts) == ts \div SecondsPerDay

\* datetime.fromisoformat(ts).strftime('%H:%M'), as the minute of the day
HourMinute(ts) == (ts % SecondsPerDay) \div 60

IsSorted(s) == \A i \in 1..(Len(s) - 1) : s[i].ts <= s[i + 1].ts

\* ------------------------------------------------------------ clock
Tick(d, max) ==
  /\ ticks < max
  /\ now' = now + d
  /\ ticks' = ticks + 1
  /\ UNCHANGED <<devVars, cacheVars, getVars, reqVars, fileVars, pollVars, mpc>>

\* ------------------------------------------------------------ lru_cache
\* The wrapper's lookup: a hit returns the memoized value, a miss sends
\* the caller into the wrapped function.
\* Variant: a wrapper that memoizes nothing.
CacheHitNever == FALSE

CacheHit == cache # NoCache

CacheLookup(t) ==
  /\ gstart' = [gstart EXCEPT ![t] = cmdsCleared]
  /\ gfail' = [gfail EXCEPT ![t] = FALSE]
  /\ IF CacheHit
       THEN /\ gpc' = [gpc EXCEPT ![t] = "ret"]
            /\ gval' = [gval EXCEPT ![t] = cache]
            /\ gage' = [gage EXCEPT ![t] = now - cache.at]
       ELSE /\ gpc' = [gpc EXCEPT ![t] = "status"]
            /\ gval' = [gval EXCEPT ![t] = NoCache]
            /\ gage' = [gage EXCEPT ![t] = 0 - 1]
  /\ UNCHANGED cacheVars

\* `return {}`: what the wrapped function gives without a device or when
\* status() raises.
\* Variant: a dict of zeros in place of the empty dict.
StatusFailedZeros(at, cmds) == Dps(TRUE, FALSE, 0, at, cmds)

StatusFailed(at, cmds) == EmptyDps(at, cmds)

\* The wrapped function: {} without a device or when status() raises,
\* the device's dps otherwise.
DeviceStatus(t, ok, p) ==
  /\ gpc[t] = "status"
  /\ gpc' = [gpc EXCEPT ![t] = "store"]
  /\ IF ~devPresent
       THEN /\ ok
            /\ gval' = [gval EXCEPT ![t] = StatusFailed(now, cmdsSent)]
            /\ gfail' = [gfail EXCEPT ![t] = TRUE]
            /\ UNCHANGED readTimes
       ELSE /\ gval' = [gval EXCEPT ![t] =
                          IF ok THEN Dps(TRUE, devOn, p, now, cmdsSent)
                                ELSE StatusFailed(now, cmdsSent)]
            /\ gfail' = [gfail EXCEPT ![t] = ~ok]
            /\ readTimes' = Append(readTimes, now)
  /\ UNCHANGED <<cache, cmdsCleared, gstart, gage>>
  /\ UNCHANGED <<clockVars, devVars, reqVars, fileVars, pollVars, mpc>>

\* Back in the wrapper: the result is memoized unless the key was added
\* while the wrapped function ran; the caller gets its own result.
CacheStore(t) ==
  /\ gpc[t] = "store"
  /\ gpc' = [gpc EXCEPT ![t] = "ret"]
  /\ cache' = IF cache = NoCache THEN gval[t] ELSE cache
  /\ UNCHANGED <<readTimes, cmdsCleared, gval, gstart, gage, gfail>>
  /\ UNCHANGED <<clockVars, devVars, reqVars, fileVars, pollVars, mpc>>

\* get_cached_device_status.cache_clear()
CacheClear(k) ==
  /\ cache' = NoCache
  /\ readTimes' = << >>
  /\ cmdsCleared' = Max(cmdsCleared, k)

\* A caller has its value: the call's frame is gone.
GetDone(t) ==
  /\ gpc' = [gpc EXCEPT ![t] = "out"]
  /\ gval' = [gval EXCEPT ![t] = NoCache]
  /\ gstart' = [gstart EXCEPT ![t] = 0]
  /\ gage' = [gage EXCEPT ![t] = 0 - 1]
  /\ gfail' = [gfail EXCEPT ![t] = FALSE]

\* ------------------------------------------------------------ file_lock
\* `with file_lock:` is entered when no thread holds the lock.
\* Variant: a block entered without waiting for the lock.
CanAcquireAlways(t) == TRUE

CanAcquire(t) == file_lock = Free

\* ------------------------------------------------------------ init_files
\* os.path.exists(JSON_FILE), then under file_lock the write of [].
NeedsInit == ~file.exists

InitWrite(t) ==
  /\ file_lock = t
  /\ file' = ValidFile(<< >>)
  /\ durable' = << >>
  /\ file_lock' = Free
  /\ UNCHANGED midWrite

MainInitCheck ==
  /\ mpc = "i_check"
  /\ mpc' = IF NeedsInit THEN "i_lock" ELSE "serve"
  /\ UNCHANGED <<clockVars, devVars, cacheVars, getVars, reqVars, fileVars,
                 pollVars>>

MainInitLock ==
  /\ mpc = "i_lock"
  /\ CanAcquire(MainThread)
  /\ file_lock' = MainThread
  /\ mpc' = "i_write"
  /\ UNCHANGED <<file, durable, midWrite>>
  /\ UNCHANGED <<clockVars, devVars, cacheVars, getVars, reqVars, pollVars>>

MainInitWrite ==
  /\ mpc = "i_write"
  /\ InitWrite(MainThread)
  /\ mpc' = "serve"
  /\ UNCHANGED <<clockVars, devVars, cacheVars, getVars, reqVars, pollVars>>

\* ------------------------------------------------------------ monitor_energy
PollInitCheck ==
  /\ ppc = "i_check"
  /\ IF NeedsInit
       THEN /\ ppc' = "i_lock"
            /\ UNCHANGED last_save_time
       ELSE /\ ppc' = "loop"
            /\ last_save_time' = now
  /\ UNCHANGED <<wake, existing_data, cutoff, saveResult, pollOutcome, attempt>>
  /\ UNCHANGED <<clockVars, devVars, cacheVars, getVars, reqVars, fileVars, mpc>>

PollInitLock ==
  /\ ppc = "i_lock"
  /\ CanAcquire(Poller)
  /\ file_lock' = Poller
  /\ ppc' = "i_write"
  /\ UNCHANGED <<file, durable, midWrite>>
  /\ UNCHANGED <<last_save_time, wake, existing_data, cutoff, saveResult,
                 pollOutcome, attempt>>
  /\ UNCHANGED <<clockVars, devVars, cacheVars, getVars, reqVars, mpc>>

PollInitWrite ==
  /\ ppc = "i_write"
  /\ InitWrite(Poller)
  /\ ppc' = "loop"
  /\ last_save_time' = now
  /\ UNCHANGED <<wake, existing_data, cutoff, saveResult, pollOutcome, attempt>>
  /\ UNCHANGED <<clockVars, devVars, cacheVars, getVars, reqVars, mpc>>

\* if time.time() - last_save_time >= STORAGE_INTERVAL
\* Variant: the test left out, a poll at every turn of the loop.
PollDueAlways == TRUE

PollDue == now - last_save_time >= STORAGE_INTERVAL

\* The top of the loop: when a save is due the cache is cleared, otherwise
\* the thread sleeps.
PollCheck ==
  /\ ppc = "loop"
  /\ IF PollDue
       THEN /\ CacheClear(0)
            /\ ppc' = "get"
            /\ UNCHANGED wake
       ELSE /\ ppc' = "sleep"
            /\ wake' = now + SleepSeconds
            /\ UNCHANGED cacheVars
  /\ UNCHANGED <<last_save_time, existing_data, cutoff, saveResult,
                 pollOutcome, attempt>>
  /\ UNCHANGED <<clockVars, devVars, getVars, reqVars, fileVars, mpc>>

\* data = get_cached_device_status().  The attempt is recorded with the
\* time since the previous one and the way the previous cycle ended.
NoAttempt == [at |-> 0 - 1, gap |-> 0 - 1, after |-> "none"]

PollGet ==
  /\ ppc = "get"
  /\ CacheLookup(Poller)
  /\ ppc' = "data"
  /\ attempt' = [at |-> now,
                 gap |-> IF attempt = NoAttempt THEN 0 - 1
                                                ELSE now - attempt.at,
                 after |-> pollOutcome]
  /\ UNCHANGED <<last_save_time, wake, existing_data, cutoff, saveResult,
                 pollOutcome>>
  /\ UNCHANGED <<clockVars, devVars, reqVars, fileVars, mpc>>

\* `if data:` is true of a dict that is not empty.
\* Variant: the test left out, whatever came back is saved.
HasDataAlways(data) == TRUE

HasData(data) == data.has

\* if data: save_energy_data(data), else straight to time.sleep(60)
PollData ==
  /\ ppc = "data"
  /\ gpc[Poller] = "ret"
  /\ IF HasData(gval[Poller])
       THEN /\ ppc' = "s_lock"
            /\ UNCHANGED <<wake, pollOutcome, getVars>>
       ELSE /\ ppc' = "sleep"
            /\ wake' = now + SleepSeconds
            /\ pollOutcome' = "read_failed"
            /\ GetDone(Poller)
  /\ UNCHANGED <<last_save_time, existing_data, cutoff, saveResult, attempt>>
  /\ UNCHANGED <<clockVars, devVars, cacheVars, reqVars, fileVars, mpc>>

\* ------------------------------------------------------------ save_energy_data
\* Where control goes when a statement of the try block raises: the except
\* clause prints and the function returns.
\* Variant: no except clause; the exception ends the monitor thread.
AfterSaveErrorRaised == "dead"

AfterSaveError == "saved"

SaveLock ==
  /\ ppc = "s_lock"
  /\ CanAcquire(Poller)
  /\ file_lock' = Poller
  /\ ppc' = "s_read"
  /\ saveResult' = "running"
  /\ UNCHANGED <<file, durable, midWrite>>
  /\ UNCHANGED <<last_save_time, wake, existing_data, cutoff, pollOutcome,
                 attempt>>
  /\ UNCHANGED <<clockVars, devVars, cacheVars, getVars, reqVars, mpc>>

\* existing_data = json.load(f); entry = {...}; existing_data.append(entry)
NewEntry == Sample(now, gval[Poller].pw, gval[Poller].on)

\* Variant: the entry inserted at the front.
WithEntryFirst(old, entry) == <<entry>> \o old

WithEntry(old, entry) == Append(old, entry)

SaveRead ==
  /\ ppc = "s_read"
  /\ IF file.exists /\ file.valid
       THEN /\ existing_data' = WithEntry(file.data, NewEntry)
            /\ ppc' = "s_prune"
            /\ UNCHANGED <<file_lock, saveResult>>
       ELSE /\ ppc' = AfterSaveError
            /\ saveResult' = "read_failed"
            /\ file_lock' = Free
            /\ UNCHANGED existing_data
  /\ UNCHANGED <<file, durable, midWrite>>
  /\ UNCHANGED <<last_save_time, wake, cutoff, pollOutcome, attempt>>
  /\ UNCHANGED <<clockVars, devVars, cacheVars, getVars, reqVars, mpc>>

\* cutoff = datetime.now() - timedelta(days=30); keep the entries after it
\* Variant: the entry at the cutoff itself is kept.
KeptInclusive(data, c) == SelectSeq(data, LAMBDA e : e.ts >= c)

Kept(data, c) == SelectSeq(data, LAMBDA e : e.ts > c)

SavePrune ==
  /\ ppc = "s_prune"
  /\ cutoff' = now - Retention
  /\ existing_data' = Kept(existing_data, now - Retention)
  /\ ppc' = "s_open"
  /\ UNCHANGED <<last_save_time, wake, saveResult, pollOutcome, attempt>>
  /\ UNCHANGED <<clockVars, devVars, cacheVars, getVars, reqVars, fileVars, mpc>>

\* open(JSON_FILE, 'w') truncates the file; it may raise instead.
SaveOpen(ok) ==
  /\ ppc = "s_open"
  /\ IF ok
       THEN /\ file' = TruncatedFile
            /\ midWrite' = TRUE
            /\ ppc' = "s_dump"
            /\ UNCHANGED <<file_lock, saveResult>>
       ELSE /\ ppc' = AfterSaveError
            /\ saveResult' = "open_failed"
            /\ file_lock' = Free
            /\ UNCHANGED <<file, midWrite>>
  /\ UNCHANGED durable
  /\ UNCHANGED <<last_save_time, wake, existing_data, cutoff, pollOutcome,
                 attempt>>
  /\ UNCHANGED <<clockVars, devVars, cacheVars, getVars, reqVars, mpc>>

\* json.dump(existing_data, f) and the close of the file; a write error
\* leaves the bytes written so far.
SaveDump(ok) ==
  /\ ppc = "s_dump"
  /\ IF ok
       THEN /\ file' = ValidFile(existing_data)
            /\ durable' = existing_data
            /\ saveResult' = "ok"
            /\ ppc' = "saved"
       ELSE /\ saveResult' = "dump_failed"
            /\ ppc' = AfterSaveError
            /\ UNCHANGED <<file, durable>>
  /\ midWrite' = FALSE
  /\ file_lock' = Free
  /\ UNCHANGED <<last_save_time, wake, existing_data, cutoff, pollOutcome,
                 attempt>>
  /\ UNCHANGED <<clockVars, devVars, cacheVars, getVars, reqVars, mpc>>

\* last_save_time = time.time(); time.sleep(60)
PollSaved ==
  /\ ppc = "saved"
  /\ last_save_time' = now
  /\ wake' = now + SleepSeconds
  /\ ppc' = "sleep"
  /\ pollOutcome' = IF saveResult = "ok" THEN "ok" ELSE "save_failed"
  /\ existing_data' = << >>
  /\ GetDone(Poller)
  /\ UNCHANGED <<cutoff, saveResult, attempt>>
  /\ UNCHANGED <<clockVars, devVars, cacheVars, reqVars, fileVars, mpc>>

PollWake ==
  /\ ppc = "sleep"
  /\ now >= wake
  /\ ppc' = "loop"
  /\ UNCHANGED <<last_save_time, wake, existing_data, cutoff, saveResult,
                 pollOutcome, attempt>>
  /\ UNCHANGED <<clockVars, devVars, cacheVars, getVars, reqVars, fileVars, mpc>>


\* ------------------------------------------------------------ request threads
\* The server handles a request once app.run() has been reached.
Serving(r) == mpc = "serve" /\ rpc[r] = "idle"

Enter(r, kind, arg, pc) ==
  /\ rpc' = [rpc EXCEPT ![r] = pc]
  /\ rkind' = [rkind EXCEPT ![r] = kind]
  /\ rarg' = [rarg EXCEPT ![r] = arg]

Respond(r, response) ==
  /\ rpc' = [rpc EXCEPT ![r] = "done"]
  /\ rres' = [rres EXCEPT ![r] = response]

\* The response has been delivered; the thread serves the next request.
Finish(r) ==
  /\ rpc[r] = "done"
  /\ rpc' = [rpc EXCEPT ![r] = "idle"]
  /\ rkind' = [rkind EXCEPT ![r] = "none"]
  /\ rarg' = [rarg EXCEPT ![r] = 0]
  /\ rcmd' = [rcmd EXCEPT ![r] = 0]
  /\ rres' = [rres EXCEPT ![r] = NoResponse]
  /\ all_data' = [all_data EXCEPT ![r] = << >>]
  /\ rok' = [rok EXCEPT ![r] = FALSE]
  /\ rseen' = [rseen EXCEPT ![r] = << >>]
  /\ UNCHANGED <<clockVars, devVars, cacheVars, getVars, fileVars, pollVars, mpc>>

\* ------------------------------------------------------------ /live_data
LiveDataCall(r) ==
  /\ Serving(r)
  /\ Enter(r, "live_data", 0, "live")
  /\ CacheLookup(r)
  /\ UNCHANGED <<rcmd, rres, all_data, rok, rseen>>
  /\ UNCHANGED <<clockVars, devVars, fileVars, pollVars, mpc>>

LiveDataReturn(r) ==
  /\ rpc[r] = "live"
  /\ gpc[r] = "ret"
  /\ Respond(r, [status |-> 200, is_on |-> gval[r].has /\ gval[r].on,
                 power |-> gval[r].pw])
  /\ GetDone(r)
  /\ UNCHANGED <<rkind, rarg, rcmd, all_data, rok, rseen>>
  /\ UNCHANGED <<clockVars, devVars, cacheVars, fileVars, pollVars, mpc>>

\* ------------------------------------------------------------ /on, /off
\* device.set_status(on, '1'); an exception leaves the handler before the
\* cache is cleared.  Without a device the handler only redirects.
SetStatus(r, on, ok) ==
  /\ Serving(r)
  /\ IF ~devPresent
       THEN /\ ok /\ on
            /\ Enter(r, "power", 0, "done")
            /\ rres' = [rres EXCEPT ![r] = [status |-> 302]]
            /\ UNCHANGED <<devVars, rcmd>>
       ELSE /\ cmdsSent < MaxCmds
            /\ IF ok
                 THEN /\ devOn' = on
                      /\ cmdsSent' = cmdsSent + 1
                      /\ rcmd' = [rcmd EXCEPT ![r] = cmdsSent + 1]
                      /\ Enter(r, "power", 0, "clear")
                      /\ UNCHANGED <<devPresent, rres>>
                 ELSE /\ Enter(r, "power", 0, "done")
                      /\ rres' = [rres EXCEPT ![r] = [status |-> 500]]
                      /\ UNCHANGED <<devVars, rcmd>>
  /\ UNCHANGED <<all_data, rok, rseen>>
  /\ UNCHANGED <<clockVars, cacheVars, getVars, fileVars, pollVars, mpc>>

PowerClear(r) ==
  /\ rpc[r] = "clear"
  /\ CacheClear(rcmd[r])
  /\ Respond(r, [status |-> 302])
  /\ UNCHANGED <<rkind, rarg, rcmd, all_data, rok, rseen>>
  /\ UNCHANGED <<clockVars, devVars, getVars, fileVars, pollVars, mpc>>

\* ------------------------------------------------------------ reading the file
\* with file_lock: (index, get_historical_data, historical_data)
ReadLock(r, kind, arg) ==
  /\ Serving(r)
  /\ CanAcquire(r)
  /\ file_lock' = r
  /\ Enter(r, kind, arg, "read")
  /\ UNCHANGED <<file, durable, midWrite>>
  /\ UNCHANGED <<rcmd, rres, all_data, rok, rseen>>
  /\ UNCHANGED <<clockVars, devVars, cacheVars, getVars, pollVars, mpc>>

\* json.load(f): the parsed array, or an exception when the file is absent
\* or does not parse.
Loads == file.exists /\ file.valid

\* Variant: the file opened with mode 'w', which empties it.
ReadLoadTruncating(r) ==
  /\ rpc[r] = "read"
  /\ file_lock = r
  /\ all_data' = [all_data EXCEPT ![r] = << >>]
  /\ rok' = [rok EXCEPT ![r] = FALSE]
  /\ rseen' = [rseen EXCEPT ![r] = <<[mid |-> midWrite, durable |-> durable]>>]
  /\ rpc' = [rpc EXCEPT ![r] = "resp"]
  /\ file_lock' = Free
  /\ file' = TruncatedFile
  /\ UNCHANGED <<durable, midWrite>>
  /\ UNCHANGED <<rkind, rarg, rcmd, rres>>
  /\ UNCHANGED <<clockVars, devVars, cacheVars, getVars, pollVars, mpc>>

\* with open(JSON_FILE, 'r') as f: all_data = json.load(f), and the lock
\* is released.
ReadLoad(r) ==
  /\ rpc[r] = "read"
  /\ file_lock = r
  /\ all_data' = [all_data EXCEPT ![r] = IF Loads THEN file.data ELSE << >>]
  /\ rok' = [rok EXCEPT ![r] = Loads]
  /\ rseen' = [rseen EXCEPT ![r] = <<[mid |-> midWrite, durable |-> durable]>>]
  /\ rpc' = [rpc EXCEPT ![r] = "resp"]
  /\ file_lock' = Free
  /\ UNCHANGED <<file, durable, midWrite>>
  /\ UNCHANGED <<rkind, rarg, rcmd, rres>>
  /\ UNCHANGED <<clockVars, devVars, cacheVars, getVars, pollVars, mpc>>

\* ------------------------------------------------------------ /
\* The latest stored entry; the cached device status when the store is
\* empty; the zero dashboard when reading the file raised.
IndexRespond(r) ==
  /\ rpc[r] = "resp"
  /\ rkind[r] = "index"
  /\ IF ~rok[r]
       THEN /\ Respond(r, [status |-> 200, is_on |-> FALSE, power |-> 0])
            /\ UNCHANGED <<getVars, cacheVars>>
       ELSE IF all_data[r] # << >>
       THEN /\ Respond(r, [status |-> 200,
                           is_on |-> all_data[r][Len(all_data[r])].on,
                           power |-> all_data[r][Len(all_data[r])].pw])
            /\ UNCHANGED <<getVars, cacheVars>>
       ELSE /\ rpc' = [rpc EXCEPT ![r] = "idx_get"]
            /\ CacheLookup(r)
            /\ UNCHANGED rres
  /\ UNCHANGED <<rkind, rarg, rcmd, all_data, rok, rseen>>
  /\ UNCHANGED <<clockVars, devVars, fileVars, pollVars, mpc>>

IndexFallback(r) ==
  /\ rpc[r] = "idx_get"
  /\ gpc[r] = "ret"
  /\ Respond(r, [status |-> 200, is_on |-> gval[r].has /\ gval[r].on,
                 power |-> gval[r].pw])
  /\ GetDone(r)
  /\ UNCHANGED <<rkind, rarg, rcmd, all_data, rok, rseen>>
  /\ UNCHANGED <<clockVars, devVars, cacheVars, fileVars, pollVars, mpc>>

\* ------------------------------------------------------------ /history
\* get_historical_data(days): the entries after now - days, by date
\* Variant: the entry at the cutoff itself is taken.
RecentDataInclusive(data, days) ==
  SelectSeq(data, LAMBDA e : e.ts >= now - days * SecondsPerDay)

\* Variant: no cutoff, every stored entry is grouped.
RecentDataAll(data, days) == data

RecentData(data, days) ==
  SelectSeq(data, LAMBDA e : e.ts > now - days * SecondsPerDay)

\* Variant: the entries from the date on.
OnDateFrom(data, date) == SelectSeq(data, LAMBDA e : DateOf(e.ts) >= date)

OnDate(data, date) == SelectSeq(data, LAMBDA e : DateOf(e.ts) = date)

Powers(data) == [i \in 1..Len(data) |-> data[i].pw]

\* daily_data = defaultdict(...): a date not yet seen starts with empty
\* lists.
EmptyDay == [power |-> << >>, timestamps |-> << >>]

\* for entry in recent_data: the entry's power and timestamp are appended
\* to the lists of its date.
RECURSIVE DailyLoop(_, _, _)
DailyLoop(recent, i, daily) ==
  IF i > Len(recent) THEN daily
  ELSE LET entry == recent[i]
           date == DateOf(entry.ts)
           old == IF date \in DOMAIN daily THEN daily[date] ELSE EmptyDay
           new == [power |-> Append(old.power, entry.pw),
                   timestamps |-> Append(old.timestamps, entry.ts)]
       IN  DailyLoop(recent, i + 1,
             [d \in DOMAIN daily \cup {date} |->
                IF d = date THEN new ELSE daily[d]])

DailyData(recent) == DailyLoop(recent, 1, << >>)

RECURSIVE SeqSum(_)
SeqSum(s) == IF s = << >> THEN 0 ELSE s[1] + SeqSum(Tail(s))

SeqMax(s) == CHOOSE x \in {s[i] : i \in 1..Len(s)} :
               \A j \in 1..Len(s) : s[j] <= x

SeqMin(s) == CHOOSE x \in {s[i] : i \in 1..Len(s)} :
               \A j \in 1..Len(s) : s[j] >= x

\* round(sum(values) / len(values), 2), in hundredths of a watt, the sum
\* being in tenths.  Off a tie the result is the nearest hundredth; on an
\* exact decimal tie the double lies on either side of it.
\* Variant: the quotient cut off after two decimals.
Round2Floor(sum, count) == {(10 * sum) \div count}

Round2(sum, count) ==
  LET q == (10 * sum) \div count
      r == (10 * sum) % count
  IN  IF 2 * r < count THEN {q}
      ELSE IF 2 * r > count THEN {q + 1}
      ELSE {q, q + 1}

\* The 'power' statistics of one date, in hundredths of a watt.
Stats(values) ==
  {[avg |-> a, max |-> 10 * SeqMax(values), min |-> 10 * SeqMin(values)] :
     a \in Round2(SeqSum(values), Len(values))}

\* analyze_data: a date is reported when its power list is not empty.  The
\* set holds every analysis the roundings can produce.
AnalyzeData(daily) ==
  LET dates == {d \in DOMAIN daily : daily[d].power # << >>}
  IN  {a \in [dates -> UNION {Stats(daily[d].power) : d \in dates}] :
         \A d \in dates : a[d] \in Stats(daily[d].power)}

\* A failed read makes get_historical_data return {}.
HistoryRespond(r) ==
  /\ rpc[r] = "resp"
  /\ rkind[r] = "history"
  /\ \E a \in IF rok[r]
                THEN AnalyzeData(DailyData(RecentData(all_data[r], rarg[r])))
                ELSE {<< >>} :
       Respond(r, [status |-> 200, analysis |-> a])
  /\ UNCHANGED <<rkind, rarg, rcmd, all_data, rok, rseen>>
  /\ UNCHANGED <<clockVars, devVars, cacheVars, getVars, fileVars, pollVars, mpc>>

\* ------------------------------------------------------------ /historical_data
\* The loop's test `previous_time and previous_power is not None`: true
\* from the second entry on, whatever the previous power.
\* Variant: `previous_time and previous_power`, false after a 0 W entry.
SegmentCountedTruthy(hasPrev, prevP) == hasPrev /\ prevP # 0

SegmentCounted(hasPrev, prevP) == hasPrev

\* The loop of lines 248-257.  total_watt_hours is kept as the exact
\* numerator over WattHourScale: a segment adds
\* (previous_power + power) / 2 * seconds / 3600, with powers in tenths.
RECURSIVE TrapezoidLoop(_, _, _, _, _, _)
TrapezoidLoop(sel, i, hasPrev, prevT, prevP, acc) ==
  IF i > Len(sel) THEN acc
  ELSE TrapezoidLoop(sel, i + 1, TRUE, sel[i].ts, sel[i].pw,
         IF SegmentCounted(hasPrev, prevP)
           THEN acc + (prevP + sel[i].pw) * (sel[i].ts - prevT)
           ELSE acc)

WattHourScale == 2 * 10 * SecondsPerHour

\* Variant: each segment weighted by the power at its start only.
TotalWattHoursLeft(sel) ==
  SeqSum([i \in 1..(Len(sel) - 1) |->
            2 * sel[i].pw * (sel[i + 1].ts - sel[i].ts)])

TotalWattHours(sel) == TrapezoidLoop(sel, 1, FALSE, 0, 0, 0)

\* round(total_watt_hours / 1000, 3), in thousandths of a kWh.  Off a tie
\* the result is the nearest thousandth; on an exact decimal tie the double
\* lies on either side of it, so either neighbour can come out.
Round3(n) ==
  LET q == n \div WattHourScale
      r == n % WattHourScale
  IN  IF 2 * r < WattHourScale THEN {q}
      ELSE IF 2 * r > WattHourScale THEN {q + 1}
      ELSE {q, q + 1}

DayRespond(r) ==
  /\ rpc[r] = "resp"
  /\ rkind[r] = "day"
  /\ LET sel == OnDate(all_data[r], rarg[r])
     IN  IF ~rok[r]
           THEN Respond(r, [status |-> 500])
           ELSE IF sel = << >>
           THEN Respond(r, [status |-> 404,
                           error |-> "No data for selected date"])
           ELSE \E k \in Round3(TotalWattHours(sel)) :
                  Respond(r, [status |-> 200,
                      timestamps |-> [i \in 1..Len(sel) |-> HourMinute(sel[i].ts)],
                      power |-> Powers(sel),
                      total_kwh |-> k])
  /\ UNCHANGED <<rkind, rarg, rcmd, all_data, rok, rseen>>
  /\ UNCHANGED <<clockVars, devVars, cacheVars, getVars, fileVars, pollVars, mpc>>

\* ------------------------------------------------------------ specifications
\* A store left by an earlier run: one entry that leaves the retention
\* window STORAGE_INTERVAL seconds from now, one written just before the
\* restart.
OldSample == Sample(STORAGE_INTERVAL - Retention, 1000, TRUE)
RecentSample == Sample(0 - STORAGE_INTERVAL, 500, FALSE)
InitFiles == {AbsentFile, ValidFile(<<OldSample, RecentSample>>)}

\* What the device reports as dps '19': 100.0 W.
DevicePowers == {1000}

InitThreads ==
  /\ devOn = FALSE
  /\ cmdsSent = 0
  /\ cache = NoCache
  /\ readTimes = << >>
  /\ cmdsCleared = 0
  /\ gpc = [t \in Callers |-> "out"]
  /\ gval = [t \in Callers |-> NoCache]
  /\ gstart = [t \in Callers |-> 0]
  /\ gage = [t \in Callers |-> 0 - 1]
  /\ gfail = [t \in Callers |-> FALSE]
  /\ rpc = [r \in Reqs |-> "idle"]
  /\ rkind = [r \in Reqs |-> "none"]
  /\ rarg = [r \in Reqs |-> 0]
  /\ rcmd = [r \in Reqs |-> 0]
  /\ rres = [r \in Reqs |-> NoResponse]
  /\ all_data = [r \in Reqs |-> << >>]
  /\ rok = [r \in Reqs |-> FALSE]
  /\ rseen = [r \in Reqs |-> << >>]
  /\ file_lock = Free
  /\ midWrite = FALSE
  /\ last_save_time = 0
  /\ wake = 0
  /\ existing_data = << >>
  /\ cutoff = 0
  /\ saveResult = "none"
  /\ pollOutcome = "none"
  /\ attempt = NoAttempt

Init ==
  /\ now = 0
  /\ ticks = 0
  /\ devPresent \in BOOLEAN
  /\ file \in InitFiles
  /\ durable = file.data
  /\ mpc = "i_check"
  /\ ppc = "i_check"
  /\ InitThreads

MainNext == MainInitCheck \/ MainInitLock \/ MainInitWrite

PollerNext ==
  \/ PollInitCheck \/ PollInitLock \/ PollInitWrite
  \/ PollCheck \/ PollGet \/ PollData
  \/ SaveLock \/ SaveRead \/ SavePrune
  \/ \E ok \in BOOLEAN : SaveOpen(ok)
  \/ \E ok \in BOOLEAN : SaveDump(ok)
  \/ PollSaved \/ PollWake

GetNext(powers) ==
  \/ \E t \in Callers, ok \in BOOLEAN, p \in powers : DeviceStatus(t, ok, p)
  \/ \E t \in Callers : CacheStore(t)

LiveNext ==
  \/ \E r \in Reqs : LiveDataCall(r)
  \/ \E r \in Reqs : LiveDataReturn(r)

PowerNext ==
  \/ \E r \in Reqs, on, ok \in BOOLEAN : SetStatus(r, on, ok)
  \/ \E r \in Reqs : PowerClear(r)

StoreReaders == {1}
StoreDates == {0 - 1, 0}
StoreDays == {1}

ReadNext(readers, days, dates) ==
  \/ \E r \in readers : ReadLock(r, "index", 0)
  \/ \E r \in readers, d \in days : ReadLock(r, "history", d)
  \/ \E r \in readers, d \in dates : ReadLock(r, "day", d)
  \/ \E r \in readers : ReadLoad(r)
  \/ \E r \in readers : IndexRespond(r)
  \/ \E r \in readers : IndexFallback(r)
  \/ \E r \in readers : HistoryRespond(r)
  \/ \E r \in readers : DayRespond(r)

\* The cache with its callers: the live and power routes and the poller.
NextCache ==
  \/ Tick(STORAGE_INTERVAL, CacheTicks)
  \/ MainNext
  \/ PollerNext
  \/ GetNext(DevicePowers)
  \/ LiveNext
  \/ PowerNext
  \/ \E r \in Reqs : Finish(r)

SpecCache == Init /\ [][NextCache]_vars

\* The cache between power commands: the live route and the poller.
NextMemo ==
  \/ Tick(STORAGE_INTERVAL, CacheTicks)
  \/ MainNext
  \/ PollerNext
  \/ GetNext(DevicePowers)
  \/ LiveNext
  \/ \E r \in Reqs : Finish(r)

SpecMemo == Init /\ [][NextMemo]_vars

\* Every route served by one request thread, with the poller and both
\* init_files calls.
NextRoutes ==
  \/ Tick(STORAGE_INTERVAL, CacheTicks)
  \/ MainNext
  \/ PollerNext
  \/ GetNext(DevicePowers)
  \/ \E r \in StoreReaders : LiveDataCall(r)
  \/ \E r \in StoreReaders : LiveDataReturn(r)
  \/ \E r \in StoreReaders, on, ok \in BOOLEAN : SetStatus(r, on, ok)
  \/ \E r \in StoreReaders : PowerClear(r)
  \/ ReadNext(StoreReaders, StoreDays, StoreDates)
  \/ \E r \in StoreReaders : Finish(r)

SpecRoutes == Init /\ [][NextRoutes]_vars

\* The store with its writer and its readers.
NextStore ==
  \/ Tick(STORAGE_INTERVAL, StoreTicks)
  \/ MainNext
  \/ PollerNext
  \/ GetNext(DevicePowers)
  \/ ReadNext(StoreReaders, StoreDays, StoreDates)
  \/ \E r \in StoreReaders : Finish(r)

SpecStore == Init /\ [][NextStore]_vars

\* The monitor thread alone with the main thread's init_files, the clock
\* moving one sleep at a time.  Threads that can run do run, the device
\* call returns, and time passes.
NextSched ==
  \/ Tick(SleepSeconds, SchedTicks)
  \/ MainNext
  \/ PollerNext
  \/ GetNext(DevicePowers)

SpecSched ==
  /\ Init
  /\ [][NextSched]_vars
  /\ WF_vars(Tick(SleepSeconds, SchedTicks))
  /\ WF_vars(MainNext)
  /\ WF_vars(PollerNext)
  /\ WF_vars(GetNext(DevicePowers))

\* The read routes over every small store: up to MaxSamples entries in
\* time order, at 12:00, 12:30 and 13:00 of one day and 12:00 of the next.
Noon == 12 * SecondsPerHour
QueryTimes == {Noon, Noon + 1800, Noon + SecondsPerHour, Noon + SecondsPerDay}
QueryPowers == {0, 500, 1000, 1500, 2000}
QuerySamples == {Sample(t, p, TRUE) : t \in QueryTimes, p \in QueryPowers}
QueryStores ==
  {d \in UNION {[1..n -> QuerySamples] : n \in 0..MaxSamples} : IsSorted(d)}
QueryDates == {0, 1, 2}
QueryDays == {1, 7}

InitQuery ==
  /\ now = Noon + SecondsPerDay
  /\ ticks = 0
  /\ devPresent = TRUE
  /\ file \in {ValidFile(d) : d \in QueryStores}
  /\ durable = file.data
  /\ mpc = "serve"
  /\ InitThreads
  /\ ppc = "sleep"

NextQuery ==
  \/ ReadNext(StoreReaders, QueryDays, QueryDates)
  \/ GetNext(DevicePowers)
  \/ \E r \in StoreReaders : Finish(r)

SpecQuery == InitQuery /\ [][NextQuery]_vars

\* ------------------------------------------------------------ properties
InFlight(r) == rpc[r] \in {"resp", "idx_get", "done"} /\ rseen[r] # << >>

\* C1 (retention invariant): once save_energy_data has written the file,
\* every stored entry is newer than that call's cutoff, the time of the
\* prune minus 30 days.
RetentionInvariant ==
  saveResult = "ok" =>
    /\ file.valid
    /\ \A i \in 1..Len(file.data) : file.data[i].ts > cutoff

\* A save that pruned: of the two entries found, the one at the cutoff is
\* gone and the other precedes the new entry.
RetentionWitness ==
  /\ saveResult = "ok"
  /\ Len(file.data) = 2
  /\ file.data[1] = RecentSample
  /\ cutoff = OldSample.ts

\* C2 (order invariant): the stored sequence, and the sequence a save is
\* building, are in non-decreasing timestamp order in every state.
OrderInvariant == IsSorted(file.data) /\ IsSorted(existing_data)

\* Two saves on top of an earlier run's entry.
OrderWitness ==
  /\ saveResult = "ok"
  /\ Len(file.data) = 3
  /\ file.data[1].ts < file.data[2].ts
  /\ file.data[2].ts < file.data[3].ts

\* C3 (cache staleness bound), as claimed: a call answered from the cache
\* is given a value read at most CacheTTL seconds before the call.
CacheFresh == \A t \in Callers : gage[t] <= CacheTTL

\* C4 (cache debounce), as claimed: between two invalidations no two
\* device reads happen within one TTL window.
OneReadPerWindow ==
  \A i, j \in 1..Len(readTimes) :
    i < j => readTimes[j] - readTimes[i] >= CacheTTL

\* C4, amended: while a value is memoized no call starts a device read;
\* only the calls that missed before the first result was stored read the
\* device, one read each.
MemoizedNoRead ==
  [][cache # NoCache =>
       \A t \in Callers : gpc[t] # "status" => gpc'[t] # "status"]_vars

\* Two overlapping misses have both read the device, and a later call is
\* answered from the cache.
DebounceWitness ==
  /\ Len(readTimes) = 2
  /\ \E t \in Callers : gpc[t] = "ret" /\ gage[t] >= 0

\* C5 (invalidation after a power command), as claimed: a live_data call
\* that starts after the cache_clear of a command and is answered with
\* telemetry is answered with a reading taken after that command.
InvalidationSeen ==
  \A r \in Reqs :
    (rpc[r] = "live" /\ gpc[r] = "ret" /\ gval[r].has) =>
      gval[r].cmds >= gstart[r]

\* C6 (snapshot atomicity): what a handler read from the file was not in
\* the middle of a rewrite, and when it parsed it is the content of the
\* last complete write.
SnapshotAtomic ==
  \A r \in Reqs :
    InFlight(r) =>
      /\ ~rseen[r][1].mid
      /\ rok[r] => all_data[r] = rseen[r][1].durable

\* A handler holds the snapshot it took before a save that is now between
\* its read and its write.
SnapshotWitness ==
  \E r \in Reqs :
    /\ rpc[r] = "resp"
    /\ rok[r]
    /\ Len(all_data[r]) = 2
    /\ ppc \in {"s_prune", "s_open", "s_dump"}

\* C7 (append failure preserves durable data), as claimed: when the write
\* of a save fails, the entries stored before it that are still inside the
\* retention window are still in the file.
FailedAppendKeepsData ==
  (ppc = "saved" /\ saveResult \in {"open_failed", "dump_failed"}) =>
    /\ file.valid
    /\ \A i \in 1..Len(durable) :
         durable[i].ts > now - Retention =>
           \E j \in 1..Len(file.data) : file.data[j] = durable[i]

\* C8 (scheduler survival): the monitor thread never ends, and after a poll
\* cycle whose device read or save failed it polls again, time permitting.
PollTicks == STORAGE_INTERVAL \div SleepSeconds

PollFailed ==
  /\ ppc = "sleep"
  /\ pollOutcome \in {"read_failed", "save_failed"}
  /\ ticks + PollTicks <= SchedTicks

SchedulerSurvives ==
  /\ [](ppc # "dead")
  /\ PollFailed ~> (ppc = "get")

\* A poll attempt after a cycle whose save failed.
SurvivalWitness == ppc = "get" /\ pollOutcome = "save_failed"

\* C9 (empty-day query): when the store holds no entry of the requested
\* date, historical_data answers 404 with the no-data error.
EmptyDayNotFound ==
  \A r \in Reqs :
    (/\ rpc[r] = "done"
     /\ rkind[r] = "day"
     /\ \A i \in 1..Len(file.data) : DateOf(file.data[i].ts) # rarg[r])
    => /\ rres[r].status = 404
       /\ rres[r].error = "No data for selected date"

\* The store holds entries, none of the requested date.
EmptyDayWitness ==
  \E r \in Reqs :
    /\ rpc[r] = "done"
    /\ rkind[r] = "day"
    /\ rres[r].status = 404
    /\ Len(file.data) = MaxSamples

\* C10 (trapezoidal integration): the day total is the trapezoid sum over
\* consecutive entries, in thousandths of a kWh; 0 for a single entry and
\* 150 for 100 W and 200 W one hour apart.
TrapezoidSum(sel) ==
  SeqSum([i \in 1..(Len(sel) - 1) |->
            (sel[i].pw + sel[i + 1].pw) * (sel[i + 1].ts - sel[i].ts)])

HourPair(sel) ==
  /\ Len(sel) = 2
  /\ sel[1].pw = 1000
  /\ sel[2].pw = 2000
  /\ sel[2].ts - sel[1].ts = SecondsPerHour

TrapezoidTotal ==
  \A r \in Reqs :
    (rpc[r] = "done" /\ rkind[r] = "day" /\ rres[r].status = 200) =>
      LET sel == SelectSeq(all_data[r], LAMBDA e : DateOf(e.ts) = rarg[r])
      IN  /\ rres[r].total_kwh \in Round3(TrapezoidSum(sel))
          /\ Len(sel) = 1 => rres[r].total_kwh = 0
          /\ HourPair(sel) => rres[r].total_kwh = 150

\* Three entries of one day, the middle one at 0 W.
TrapezoidWitness ==
  \E r \in Reqs :
    /\ rpc[r] = "done"
    /\ rkind[r] = "day"
    /\ rres[r].status = 200
    /\ Len(rres[r].power) = 3
    /\ rres[r].power[2] = 0
    /\ rres[r].total_kwh > 0

\* C11 (end-to-end scenario).  The store holds exactly the entries of
\* 12:00 (100 W), 12:30 (150 W) and 13:00 (50 W) of one day and the day is
\* requested.
ScenarioStore ==
  <<Sample(Noon, 1000, TRUE), Sample(Noon + 1800, 1500, TRUE),
    Sample(Noon + SecondsPerHour, 500, TRUE)>>

ScenarioServed(r) ==
  /\ rpc[r] = "done"
  /\ rkind[r] = "day"
  /\ rarg[r] = DateOf(Noon)
  /\ all_data[r] = ScenarioStore
  /\ file.data = ScenarioStore

\* C11, as claimed: the scenario's total is 0.087 kWh.
ScenarioTotalClaimed ==
  \A r \in Reqs :
    ScenarioServed(r) => rres[r].status = 200 /\ rres[r].total_kwh = 87

\* C11, amended: the scenario's total is 112.5 Wh = 0.1125 kWh rounded to
\* three decimals, which is 0.113 or, were the tie to fall the other way,
\* 0.112.
ScenarioTotal ==
  \A r \in Reqs :
    ScenarioServed(r) =>
      /\ rres[r].status = 200
      /\ rres[r].total_kwh \in {112, 113}
      /\ rres[r].power = <<1000, 1500, 500>>

\* The scenario has been served with 0.113 kWh.
ScenarioWitness ==
  \E r \in Reqs : ScenarioServed(r) /\ rres[r].total_kwh = 113

\* C12 (aggregation correctness): the entries of the window fall into the
\* lists of their own dates and of no other, in input order; each reported
\* date carries the maximum and the minimum of its powers and the average
\* sum / count to the nearest hundredth, which lies between them.  Powers
\* 10, 20 and 30 W on one date give avg 20.00, max 30.00, min 10.00.
HistoryServed(r) ==
  rpc[r] = "done" /\ rkind[r] = "history" /\ rok[r]

Abs(x) == IF x < 0 THEN 0 - x ELSE x

TenTwentyThirty ==
  <<Sample(Noon, 100, TRUE), Sample(Noon + 1800, 200, TRUE),
    Sample(Noon + SecondsPerHour, 300, TRUE)>>

AggregationCorrect ==
  /\ \A r \in Reqs :
       HistoryServed(r) =>
         LET recent == RecentData(all_data[r], rarg[r])
             daily == DailyData(recent)
             analysis == rres[r].analysis
             OfDate(d) == SelectSeq(recent, LAMBDA e : DateOf(e.ts) = d)
         IN  /\ DOMAIN daily = {DateOf(recent[i].ts) : i \in 1..Len(recent)}
             /\ \A d \in DOMAIN daily :
                  /\ Len(daily[d].power) = Len(OfDate(d))
                  /\ Len(daily[d].timestamps) = Len(OfDate(d))
                  /\ \A i \in 1..Len(OfDate(d)) :
                       /\ daily[d].power[i] = OfDate(d)[i].pw
                       /\ daily[d].timestamps[i] = OfDate(d)[i].ts
             /\ \A d \in DOMAIN analysis :
                  LET n == Len(OfDate(d))
                      total == SeqSum([i \in 1..n |-> OfDate(d)[i].pw])
                  IN  /\ \A i \in 1..n : 10 * OfDate(d)[i].pw <= analysis[d].max
                      /\ \E i \in 1..n : 10 * OfDate(d)[i].pw = analysis[d].max
                      /\ \A i \in 1..n : 10 * OfDate(d)[i].pw >= analysis[d].min
                      /\ \E i \in 1..n : 10 * OfDate(d)[i].pw = analysis[d].min
                      /\ 2 * Abs(analysis[d].avg * n - 10 * total) <= n
                      /\ analysis[d].min <= analysis[d].avg
                      /\ analysis[d].avg <= analysis[d].max
  /\ AnalyzeData(DailyData(TenTwentyThirty)) =
       {[d \in {DateOf(Noon)} |-> [avg |-> 2000, max |-> 3000, min |-> 1000]]}

\* Three entries of one date whose average, 16.666... W, is reported as
\* 16.67 W.
AggregationWitness ==
  \E r \in Reqs :
    /\ HistoryServed(r)
    /\ DateOf(Noon) \in DOMAIN rres[r].analysis
    /\ rres[r].analysis[DateOf(Noon)] = [avg |-> 1667, max |-> 5000, min |-> 0]

\* C13 (empty partitions are omitted): the dates of a history answer are
\* exactly the dates of the stored entries inside the queried window, the
\* entries later than now - days and not later than now.
InWindow(e, days) ==
  e.ts > now - days * SecondsPerDay /\ e.ts <= now

NoEmptyPartitions ==
  \A r \in Reqs :
    HistoryServed(r) =>
      DOMAIN rres[r].analysis =
        {DateOf(all_data[r][i].ts) :
           i \in {j \in 1..Len(all_data[r]) : InWindow(all_data[r][j], rarg[r])}}

\* A one-day history over a store with entries of two dates, those of the
\* earlier date all outside the window: only the later date is reported.
PartitionWitness ==
  \E r \in Reqs :
    /\ HistoryServed(r)
    /\ rarg[r] = 1
    /\ Len(all_data[r]) = MaxSamples
    /\ DateOf(all_data[r][1].ts) = DateOf(Noon)
    /\ DOMAIN rres[r].analysis = {DateOf(Noon) + 1}

\* C14 (poll interval under failure), as claimed: two consecutive poll
\* attempts are at least STORAGE_INTERVAL apart, however the earlier one
\* ended.
PollSpacingClaimed == attempt.gap = 0 - 1 \/ attempt.gap >= STORAGE_INTERVAL

\* C14, amended: an attempt follows a cycle that obtained telemetry,
\* whether or not its save worked, by at least STORAGE_INTERVAL, and a
\* cycle whose device read failed by at least the loop's sleep.
PollSpacing ==
  /\ attempt.after \in {"ok", "save_failed"} =>
       attempt.gap >= STORAGE_INTERVAL
  /\ attempt.after = "read_failed" => attempt.gap >= SleepSeconds

\* A retry one sleep after a failed device read.
PollSpacingWitness ==
  attempt.after = "read_failed" /\ attempt.gap = SleepSeconds

\* C15 (a poll cycle appends only real telemetry): a due cycle clears the
\* cache before it asks for the status and starts a save exactly when the
\* status is not empty; a completed save leaves the entries it found, less
\* those it pruned, followed by one entry built from that status; the
\* store never grows otherwise, and never by more than one entry; no entry
\* written in this run comes from an empty status.
IsSuffix(s, t) ==
  /\ Len(s) <= Len(t)
  /\ \A i \in 1..Len(s) : s[i] = t[Len(t) - Len(s) + i]

PollAppendsTelemetry ==
  /\ [](\A i \in 1..Len(file.data) :
          file.data[i].ts >= 0 => file.data[i].pw \in DevicePowers)
  /\ [][(ppc = "loop" /\ ppc' = "get") => cache' = NoCache]_vars
  /\ [][(ppc = "data" /\ ppc' # "data") =>
          (ppc' = "s_lock" <=> gval[Poller].has)]_vars
  /\ [][(ppc = "s_dump" /\ saveResult' = "ok") =>
          /\ gval[Poller].has
          /\ durable' # << >>
          /\ durable'[Len(durable')].pw = gval[Poller].pw
          /\ durable'[Len(durable')].on = gval[Poller].on
          /\ durable'[Len(durable')].ts <= now
          /\ IsSuffix(SubSeq(durable', 1, Len(durable') - 1), durable)]_vars
  /\ [][Len(durable') > Len(durable) =>
          ppc = "s_dump" /\ Len(durable') = Len(durable) + 1]_vars

\* A cycle whose device read failed stored nothing, the next one stored
\* its reading.
PollAppendWitness ==
  /\ pollOutcome = "ok"
  /\ attempt.after = "read_failed"
  /\ file.data = <<Sample(attempt.at, 1000, FALSE)>>

\* C16 (cache fallback on device failure).  A known-good reading exists
\* when the monitor thread's last cycle obtained and stored telemetry.
FailedLiveRead(r) == rpc[r] = "live" /\ gpc[r] = "ret" /\ gfail[r]

\* C16, as claimed: a live_data call whose device read fails is answered
\* with telemetry when a known-good reading, here one taken at this very
\* time, exists.
FallbackClaimed ==
  \A r \in Reqs :
    (FailedLiveRead(r) /\ pollOutcome = "ok" /\ attempt.at = now) =>
      gval[r].has

\* C16, amended: a call whose device read fails gets the empty status,
\* whatever was read before; the empty status is memoized like any other
\* when the slot is free; live_data answers 200 in every case, with zeros
\* and is_on false for the empty status.
EmptyOnFailure ==
  /\ [](\A t \in Callers :
          gfail[t] => gval[t] = EmptyDps(gval[t].at, gval[t].cmds))
  /\ [][\A t \in Callers :
          (gpc[t] = "store" /\ gpc'[t] = "ret" /\ cache = NoCache) =>
            cache' = gval[t]]_vars
  /\ [][\A r \in Reqs :
          (rpc[r] = "live" /\ rpc'[r] = "done") =>
            /\ rres'[r].status = 200
            /\ ~gval[r].has => rres'[r].power = 0 /\ ~rres'[r].is_on]_vars

\* A live_data call's device read has failed right after the monitor
\* thread stored a reading and a power command cleared the cache.
FallbackWitness ==
  \E r \in Reqs :
    FailedLiveRead(r) /\ pollOutcome = "ok" /\ attempt.at = now /\ cmdsSent > 0

\* C17 (append failure is reported), as claimed: after a cycle whose save
\* failed the monitor thread has not recorded a save; its last save time
\* is still the one the cycle started with, a full STORAGE_INTERVAL before
\* the cycle's device read.
AppendFailureReported ==
  pollOutcome = "save_failed" =>
    attempt.at - last_save_time >= STORAGE_INTERVAL

\* C18 (range bounds), as claimed: the range read of a history request
\* returns exactly the stored entries with now - days <= timestamp <= now.
RangeFrom(days) == now - days * SecondsPerDay

RangeInclusiveClaimed ==
  \A r \in Reqs :
    HistoryServed(r) =>
      RecentData(all_data[r], rarg[r]) =
        SelectSeq(all_data[r],
                  LAMBDA e : RangeFrom(rarg[r]) <= e.ts /\ e.ts <= now)

\* C18, amended: the range read returns, in stored order, the entries
\* later than now - days and no other; an entry exactly at now - days is
\* left out, and a date with no later entry is not reported.
RangeExclusive ==
  \A r \in Reqs :
    HistoryServed(r) =>
      LET recent == RecentData(all_data[r], rarg[r])
          later == {i \in 1..Len(all_data[r]) :
                      all_data[r][i].ts > RangeFrom(rarg[r])}
      IN  /\ \A i \in 1..Len(recent) : recent[i].ts > RangeFrom(rarg[r])
          /\ \A i \in 1..Len(recent) : recent[i].ts <= now
          /\ Len(recent) = Cardinality(later)
          /\ \A i \in later : \E j \in 1..Len(recent) : recent[j] = all_data[r][i]
          /\ IsSorted(recent)
          /\ \A d \in DOMAIN rres[r].analysis :
               \E i \in later : DateOf(all_data[r][i].ts) = d

\* A one-day history over a store whose only entry of the earlier date is
\* exactly one day old: that date is not reported, the later one is.
RangeWitness ==
  \E r \in Reqs :
    /\ HistoryServed(r)
    /\ Len(all_data[r]) >= 2
    /\ all_data[r][1].ts = RangeFrom(rarg[r])
    /\ DateOf(all_data[r][2].ts) # DateOf(all_data[r][1].ts)
    /\ DOMAIN rres[r].analysis = {DateOf(now)}

\* C19 (only the writer mutates the store): a step of a request handler
\* (live_data, index, history, historical_data, turn_on, turn_off), of a
\* handler's status call or of a cache_clear leaves the file as it is; the
\* file changes only in a write of save_energy_data or of init_files.
HandlerStep ==
  \/ \E r \in Reqs : rpc'[r] # rpc[r]
  \/ \E r \in Reqs : gpc'[r] # gpc[r]
  \/ cache' # cache
  \/ cmdsSent' # cmdsSent

StoreFrame ==
  /\ [][HandlerStep => file' = file /\ durable' = durable]_vars
  /\ [][file' # file =>
          \/ ppc \in {"i_write", "s_open", "s_dump"} /\ ppc' # ppc
          \/ mpc = "i_write" /\ mpc' # mpc]_vars

\* A power command has been sent and its cache_clear done while the
\* store holds the sample of a completed save.
StoreFrameWitness ==
  \E r \in Reqs :
    /\ rpc[r] = "done"
    /\ rkind[r] = "power"
    /\ cmdsCleared > 0
    /\ saveResult = "ok"
    /\ file.data # << >>

\* C20 (initialization never destroys samples), as claimed: the write of
\* an init_files call, in the main thread or in the monitor thread, never
\* replaces a store that holds samples.
InitWriteStep ==
  \/ mpc = "i_write" /\ mpc' # mpc
  \/ ppc = "i_write" /\ ppc' # ppc

InitKeepsSamples ==
  [][(InitWriteStep /\ file.data # << >>) => file'.data = file.data]_vars

=============================================================================
